---- MODULE Spec2Model ----
(***************************************************************************)
(* The meme generation workflow of meme_chain.py: the four LangGraph nodes *)
(* get_template_info -> generate_multiple_captions -> select_best_caption  *)
(* -> call_imgflip_api run over one shared MemeState.                      *)
(*                                                                         *)
(* Texts (model responses) are sequences of lexical tokens; Python and     *)
(* JSON values are records of one shape, so that values of different       *)
(* Python types can be compared.  A string value is the sequence of its    *)
(* symbols (one symbol per character for the strings that are measured or  *)
(* indexed).                                                               *)
(***************************************************************************)
EXTENDS Integers, Sequences, FiniteSets, TLC

\* ------------------------------------------------------------------------
\* Python / JSON values
\* ------------------------------------------------------------------------

Val(t, s, n, items) == [t |-> t, s |-> s, n |-> n, items |-> items]

VStr(s) == Val("str", s, 0, <<>>)

VInt(n) == Val("int", <<>>, n, <<>>)

\* a float, held as ten times its value (2.0 is VFloat(20), 2.5 is VFloat(25))
VFloat(n) == Val("float", <<>>, n, <<>>)

VBool(b) == Val("bool", <<>>, IF b THEN 1 ELSE 0, <<>>)

VNone == Val("none", <<>>, 0, <<>>)

VList(items) == Val("list", <<>>, 0, items)

VTuple(items) == Val("tuple", <<>>, 0, items)

\* a dict holds its entries, in insertion order, as pairs
VPair(k, v) == Val("pair", <<>>, 0, <<k, v>>)

VDict(pairs) == Val("dict", <<>>, 0, pairs)

VSet(items) == Val("set", <<>>, 0, items)

\* An optional field of the state record: <<>> when the key is absent.
Unset == <<>>

Some(v) == <<v>>

IsSet(f) == f # <<>>

\* Python's ==  on the values used as dict keys and set elements:
\* numbers compare by value across int, bool and float (1 == 1.0 == True).
IsNumber(v) == v.t \in {"int", "bool", "float"}

Tenths(v) == IF v.t = "float" THEN v.n ELSE 10 * v.n

PyEq(a, b) ==
    IF IsNumber(a) /\ IsNumber(b) THEN Tenths(a) = Tenths(b) ELSE a = b

Hashable(v) == v.t \notin {"list", "dict", "set"}

\* ------------------------------------------------------------------------
\* Texts: sequences of tokens
\* ------------------------------------------------------------------------

Tok(k, v) == [k |-> k, v |-> v]

P(k) == Tok(k, VNone)

\* a literal both ast.literal_eval and json.loads read: "a", 2, 2.0
Lit(v) == Tok("lit", v)

\* a literal only Python reads (True, None) and one only JSON reads (true, null)
PyLit(v) == Tok("pylit", v)

JsLit(v) == Tok("jslit", v)

\* prose: a bare word neither parser reads
Word == Tok("word", VNone)

WS == Tok("ws", VNone)

S(c) == Lit(VStr(c))

N(n) == Lit(VInt(n))

RECURSIVE StripLeft(_)
StripLeft(toks) ==
    IF toks # <<>> /\ Head(toks).k = "ws" THEN StripLeft(Tail(toks)) ELSE toks

RECURSIVE StripRight(_)
StripRight(toks) ==
    IF toks # <<>> /\ toks[Len(toks)].k = "ws"
    THEN StripRight(SubSeq(toks, 1, Len(toks) - 1))
    ELSE toks

\* str.strip()
Strip(toks) == StripRight(StripLeft(toks))

\* re.search(open + '.*?' + close, content, re.DOTALL): the leftmost opening
\* delimiter that has a closing one after it, up to the nearest such closing
\* delimiter.  [found, frag].
Search(toks, open, close) ==
    LET starts == {i \in 1..Len(toks) :
                      /\ toks[i].k = open
                      /\ \E j \in (i + 1)..Len(toks) : toks[j].k = close}
    IN  IF starts = {}
        THEN [found |-> FALSE, frag |-> <<>>]
        ELSE LET i == CHOOSE x \in starts : \A y \in starts : x <= y
                 ends == {j \in (i + 1)..Len(toks) : toks[j].k = close}
                 j == CHOOSE x \in ends : \A y \in ends : x <= y
             IN  [found |-> TRUE, frag |-> SubSeq(toks, i, j)]

\* ------------------------------------------------------------------------
\* The structural parsers: ast.literal_eval (lang = "py"), json.loads ("json")
\* ------------------------------------------------------------------------

IsAtom(tok, lang) ==
    \/ tok.k = "lit"
    \/ tok.k = "pylit" /\ lang = "py"
    \/ tok.k = "jslit" /\ lang = "json"

NoValue == [ok |-> FALSE, v |-> VNone, next |-> 0]

NoItems == [ok |-> FALSE, items |-> <<>>, next |-> 0, trail |-> FALSE]

\* a dict literal keeps one entry per key: a later entry replaces the value
RECURSIVE PutKey(_, _)
PutKey(pairs, p) ==
    IF pairs = <<>> THEN <<p>>
    ELSE IF PyEq(Head(pairs).items[1], p.items[1])
         THEN <<VPair(Head(pairs).items[1], p.items[2])>> \o Tail(pairs)
         ELSE <<Head(pairs)>> \o PutKey(Tail(pairs), p)

RECURSIVE MakeDict(_, _)
MakeDict(pairs, acc) ==
    IF pairs = <<>> THEN acc ELSE MakeDict(Tail(pairs), PutKey(acc, Head(pairs)))

RECURSIVE MakeSet(_, _)
MakeSet(items, acc) ==
    IF items = <<>> THEN acc
    ELSE IF \E k \in 1..Len(acc) : PyEq(acc[k], Head(items))
         THEN MakeSet(Tail(items), acc)
         ELSE MakeSet(Tail(items), Append(acc, Head(items)))

\* Python joins adjacent string literals ("t1" "t2" is "t1t2"): the string
\* starting at token i, and the position after its last literal
RECURSIVE StringRun(_, _, _)
StringRun(toks, i, acc) ==
    IF i <= Len(toks) /\ toks[i].k = "lit" /\ toks[i].v.t = "str"
    THEN StringRun(toks, i + 1, acc \o toks[i].v.s)
    ELSE [ok |-> TRUE, v |-> VStr(acc), next |-> i]

RECURSIVE ParseValue(_, _, _)
RECURSIVE ParseItems(_, _, _, _, _, _, _)

\* items up to the closing delimiter, separated by commas; in "dict" mode each
\* item is key : value.  afterComma: the previous token was a comma.
ParseItems(toks, i, close, lang, mode, acc, afterComma) ==
    IF i > Len(toks) THEN NoItems
    ELSE IF toks[i].k = close
    THEN IF afterComma /\ lang = "json" THEN NoItems
         ELSE [ok |-> TRUE, items |-> acc, next |-> i + 1, trail |-> afterComma]
    ELSE LET k == ParseValue(toks, i, lang)
             colon == k.ok /\ k.next <= Len(toks) /\ toks[k.next].k = ":"
             v == IF mode = "dict" /\ colon
                  THEN ParseValue(toks, k.next + 1, lang)
                  ELSE NoValue
             item == IF mode = "dict" THEN VPair(k.v, v.v) ELSE k.v
             ok == IF mode = "dict"
                   THEN /\ colon
                        /\ v.ok
                        /\ IF lang = "json" THEN k.v.t = "str" ELSE Hashable(k.v)
                   ELSE k.ok
             nxt == IF mode = "dict" THEN v.next ELSE k.next
         IN  IF ~ok \/ nxt > Len(toks) THEN NoItems
             ELSE IF toks[nxt].k = ","
             THEN ParseItems(toks, nxt + 1, close, lang, mode, Append(acc, item), TRUE)
             ELSE IF toks[nxt].k = close
             THEN [ok |-> TRUE, items |-> Append(acc, item), next |-> nxt + 1,
                   trail |-> FALSE]
             ELSE NoItems

ParseValue(toks, i, lang) ==
    IF i > Len(toks) THEN NoValue
    ELSE IF IsAtom(toks[i], lang)
    THEN IF lang = "py" /\ toks[i].v.t = "str"
         THEN StringRun(toks, i, <<>>)
         ELSE [ok |-> TRUE, v |-> toks[i].v, next |-> i + 1]
    ELSE IF toks[i].k = "["
    THEN LET r == ParseItems(toks, i + 1, "]", lang, "seq", <<>>, FALSE)
         IN  IF r.ok THEN [ok |-> TRUE, v |-> VList(r.items), next |-> r.next]
             ELSE NoValue
    ELSE IF toks[i].k = "(" /\ lang = "py"
    THEN LET r == ParseItems(toks, i + 1, ")", lang, "seq", <<>>, FALSE)
         IN  IF ~r.ok THEN NoValue
             ELSE IF Len(r.items) = 1 /\ ~r.trail
             THEN [ok |-> TRUE, v |-> r.items[1], next |-> r.next]
             ELSE [ok |-> TRUE, v |-> VTuple(r.items), next |-> r.next]
    ELSE IF toks[i].k = "{"
    THEN LET d == ParseItems(toks, i + 1, "}", lang, "dict", <<>>, FALSE)
             s == IF lang = "py"
                  THEN ParseItems(toks, i + 1, "}", lang, "seq", <<>>, FALSE)
                  ELSE NoItems
         IN  IF d.ok
             THEN [ok |-> TRUE, v |-> VDict(MakeDict(d.items, <<>>)), next |-> d.next]
             ELSE IF s.ok /\ s.items # <<>>
                          /\ \A k \in 1..Len(s.items) : Hashable(s.items[k])
             THEN [ok |-> TRUE, v |-> VSet(MakeSet(s.items, <<>>)), next |-> s.next]
             ELSE NoValue
    ELSE NoValue

\* the whole text must be one literal; white space between tokens is ignored
Decode(toks, lang) ==
    LET t == SelectSeq(toks, LAMBDA x : x.k # "ws")
        r == ParseValue(t, 1, lang)
    IN  IF r.ok /\ r.next = Len(t) + 1
        THEN [ok |-> TRUE, v |-> r.v]
        ELSE [ok |-> FALSE, v |-> VNone]

\* ------------------------------------------------------------------------
\* Python operations on decoded values; each yields [ok, v], ok = FALSE when
\* Python raises
\* ------------------------------------------------------------------------

Raised == [ok |-> FALSE, v |-> VNone]

Ok(v) == [ok |-> TRUE, v |-> v]

HasLen(v) == v.t \in {"str", "list", "tuple", "dict", "set"}

\* len(v), for a value that has one
PyLen(v) == IF v.t = "str" THEN Len(v.s) ELSE Len(v.items)

\* v[idx]
GetItem(v, idx) ==
    IF v.t \in {"list", "tuple", "str"}
    THEN LET n == PyLen(v)
             k == IF idx.n < 0 THEN idx.n + n ELSE idx.n
         IN  IF idx.t \in {"int", "bool"} /\ k >= 0 /\ k < n
             THEN Ok(IF v.t = "str" THEN VStr(<<v.s[k + 1]>>) ELSE v.items[k + 1])
             ELSE Raised
    ELSE IF v.t = "dict"
    THEN LET hit == {k \in 1..Len(v.items) : PyEq(v.items[k].items[1], idx)}
         IN  IF Hashable(idx) /\ hit # {}
             THEN Ok(v.items[CHOOSE k \in hit : TRUE].items[2])
             ELSE Raised
    ELSE Raised

\* d.get(key, default), d a dict
DictGet(d, key, default) ==
    LET r == GetItem(d, key) IN IF r.ok THEN r.v ELSE default

\* the elements a for loop over v visits, in order (a dict yields its keys)
Iterate(v) ==
    IF v.t = "str" THEN [k \in 1..Len(v.s) |-> VStr(<<v.s[k]>>)]
    ELSE IF v.t = "dict" THEN [k \in 1..Len(v.items) |-> v.items[k].items[1]]
    ELSE v.items

\* ------------------------------------------------------------------------
\* generate_multiple_captions: one model response to one candidate
\* ------------------------------------------------------------------------

\* the fixed candidate count, range(2)
NumProposals == 2

\* [f"Top Text {i+1}", f"Bottom Text {i+1}"]
Placeholder(i) ==
    VList(<<VStr(<<"Top Text ", ToString(i + 1)>>),
            VStr(<<"Bottom Text ", ToString(i + 1)>>)>>)

\* [''] * k
EmptyStrings(k) == [j \in 1..k |-> VStr(<<>>)]

\* EnsureTwo padding a short list at the front
EnsureTwoPadFront(captions) ==
    IF ~HasLen(captions) THEN Raised
    ELSE IF PyLen(captions) < 2
    THEN IF captions.t = "list"
         THEN Ok(VList(EmptyStrings(2 - PyLen(captions)) \o captions.items))
         ELSE Raised
    ELSE IF PyLen(captions) > 2
    THEN IF captions.t = "list" THEN Ok(VList(SubSeq(captions.items, 1, 2)))
         ELSE IF captions.t = "tuple" THEN Ok(VTuple(SubSeq(captions.items, 1, 2)))
         ELSE IF captions.t = "str" THEN Ok(VStr(SubSeq(captions.s, 1, 2)))
         ELSE Raised
    ELSE Ok(captions)

\* "Ensure we have exactly 2 captions": extend a short value, slice a long one
EnsureTwo(captions) ==
    IF ~HasLen(captions) THEN Raised
    ELSE IF PyLen(captions) < 2
    THEN IF captions.t = "list"
         THEN Ok(VList(captions.items \o EmptyStrings(2 - PyLen(captions))))
         ELSE Raised
    ELSE IF PyLen(captions) > 2
    THEN IF captions.t = "list" THEN Ok(VList(SubSeq(captions.items, 1, 2)))
         ELSE IF captions.t = "tuple" THEN Ok(VTuple(SubSeq(captions.items, 1, 2)))
         ELSE IF captions.t = "str" THEN Ok(VStr(SubSeq(captions.s, 1, 2)))
         ELSE Raised
    ELSE Ok(captions)

\* match.group(0) if match else content
GroupOr(match, content) == IF match.found THEN match.frag ELSE content

\* the text handed to the parser: the first fragment between the delimiters,
\* or the whole content when there is none
Fragment(content, open, close) == GroupOr(Search(content, open, close), content)

\* the rest of the try block once the literal is evaluated
EnsureDecoded(captions) == IF captions.ok THEN EnsureTwo(captions.v) ELSE Raised

\* the try block of one iteration: the literal found in the response, or the
\* whole response, decoded and brought to length 2
ParseCaptions(text) == EnsureDecoded(Decode(Fragment(Strip(text), "[", "]"), "py"))

\* proposals.append(captions), or the placeholder pair in the except block
Appended(parsed, i) == IF parsed.ok THEN parsed.v ELSE Placeholder(i)

\* what iteration i appends to proposals
Proposal(text, i) == Appended(ParseCaptions(text), i)

\* ------------------------------------------------------------------------
\* select_best_caption
\* ------------------------------------------------------------------------

Key(name) == VStr(<<name>>)

DefaultReasoning == VStr(<<"Selected as the funnier option.">>)

FallbackReasoning == VStr(<<"Selected first option by default.">>)

\* the prompt reads caption_proposals[j][k] for j, k in 0..1 before the try block
PromptRaises(proposals) ==
    \E j \in 0..1, k \in 0..1 :
        LET e == GetItem(proposals, VInt(j))
        IN  ~e.ok \/ ~GetItem(e.v, VInt(k)).ok

\* x - 1
MinusOne(x) ==
    IF x.t \in {"int", "bool"} THEN Ok(VInt(x.n - 1))
    ELSE IF x.t = "float" THEN Ok(VFloat(x.n - 10))
    ELSE Raised

\* x in [0, 1]
InZeroOne(x) == PyEq(x, VInt(0)) \/ PyEq(x, VInt(1))

\* the response decoded: the first brace-delimited fragment, or the whole text
JudgeResult(text) == Decode(Fragment(Strip(text), "{", "}"), "json")

JudgeRaised(st) == [raised |-> TRUE, st |-> st]

\* state["captions"] = state["caption_proposals"][selected_idx]
WriteCaptions(st, chosen) ==
    IF chosen.ok
    THEN [raised |-> FALSE, st |-> [st EXCEPT !.captions = Some(chosen.v)]]
    ELSE JudgeRaised(st)

\* the three writes that end the try block, one after the other: a raise at
\* the last leaves the first two written
WriteSelection(st, result, selected_idx) ==
    WriteCaptions(
        [st EXCEPT !.selected_caption_index = Some(selected_idx),
                   !.selection_reasoning =
                       Some(DictGet(result, Key("reasoning"), DefaultReasoning))],
        GetItem(st.caption_proposals[1], selected_idx))

\* Clamp taking the first candidate whatever the judge selected
ClampToFirst(selected_idx) == VInt(0)

\* if selected_idx not in [0, 1]: selected_idx = 0
Clamp(selected_idx) == IF InZeroOne(selected_idx) THEN selected_idx ELSE VInt(0)

SelectFrom(st, result, sub) ==
    IF sub.ok THEN WriteSelection(st, result, Clamp(sub.v)) ELSE JudgeRaised(st)

\* the try block from result.get("selected", 1) - 1 on
UseResult(st, result) ==
    IF result.ok /\ result.v.t = "dict"
    THEN SelectFrom(st, result.v, MinusOne(DictGet(result.v, Key("selected"), VInt(1))))
    ELSE JudgeRaised(st)

\* the try block run on state st: the state it leaves and whether it raised
JudgeTry(st, text) == UseResult(st, JudgeResult(text))

\* JudgeExcept without the reset of the index the try block may have written
JudgeExceptKeepsIndex(st) ==
    [st EXCEPT !.selection_reasoning = Some(FallbackReasoning),
               !.captions = Some(GetItem(st.caption_proposals[1], VInt(0)).v)]

\* JudgeExcept falling back on the second candidate
JudgeExceptSecond(st) ==
    [st EXCEPT !.selected_caption_index = Some(VInt(0)),
               !.selection_reasoning = Some(FallbackReasoning),
               !.captions = Some(GetItem(st.caption_proposals[1], VInt(1)).v)]

\* the except block: "Default to first option if parsing fails"
JudgeExcept(st) ==
    [st EXCEPT !.selected_caption_index = Some(VInt(0)),
               !.selection_reasoning = Some(FallbackReasoning),
               !.captions = Some(GetItem(st.caption_proposals[1], VInt(0)).v)]

Handled(t) == IF t.raised THEN JudgeExcept(t.st) ELSE t.st

\* try / except of select_best_caption, after the model has answered
Judge(st, text) == Handled(JudgeTry(st, text))

\* ------------------------------------------------------------------------
\* The meme registry (GET get_memes) and template lookup
\* ------------------------------------------------------------------------

\* str.lower(), on names spelt as sequences of letters
LowerChar(c) ==
    CASE c = "A" -> "a"
      [] c = "B" -> "b"
      [] c = "C" -> "c"
      [] OTHER -> c

Lower(name) == [k \in 1..Len(name) |-> LowerChar(name[k])]

Meme(name, id, box_count) == [name |-> name, id |-> id, box_count |-> box_count]

\* next((t for t in templates if t["name"].lower() == template_name.lower()), None):
\* the first entry whose name matches, as <<entry>>, or <<>> for None
FirstMatch(templates, template_name) ==
    LET hits == {k \in 1..Len(templates) :
                    Lower(templates[k].name) = Lower(template_name)}
    IN  IF hits = {} THEN <<>>
        ELSE <<templates[CHOOSE k \in hits : \A j \in hits : k <= j]>>

\* ------------------------------------------------------------------------
\* Errors a node raises
\* ------------------------------------------------------------------------

NoError == [kind |-> "", msg |-> <<>>]

Error(kind, msg) == [kind |-> kind, msg |-> msg]

\* a failure of the HTTP or model client itself
TransportError == Error("TransportError", <<>>)

\* ValueError(f"Template '{template_name}' not found")
TemplateNotFound(template_name) ==
    Error("ValueError", <<"Template '">> \o template_name \o <<"' not found">>)

\* ImgflipFailed dropping the provider's message
ImgflipFailedGeneric(res) ==
    [kind |-> "RuntimeError", msg |-> <<"Imgflip API failed: ", "Unknown error">>]

\* RuntimeError("Imgflip API failed: " + res.get("error_message", "Unknown error"))
ImgflipFailed(res) ==
    Error("RuntimeError",
          <<"Imgflip API failed: ">>
              \o (IF res.has_error_message THEN res.error_message
                  ELSE <<"Unknown error">>))

\* what indexing a candidate in the prompt raises
PromptError(proposals) ==
    IF \E j \in 0..1 : GetItem(proposals, VInt(j)).v.t = "dict"
    THEN Error("KeyError", <<>>)
    ELSE Error("TypeError", <<>>)

\* ------------------------------------------------------------------------
\* The four nodes, as functions of the state and of what the outside answers.
\* Each yields the state it leaves, the error it raises (NoError when it
\* returns) and the external calls it made.
\* ------------------------------------------------------------------------

\* get_template_info recording the box_count of the last matching entry
get_template_info_last_match(st, fetched) ==
    LET hits == {k \in 1..Len(fetched.memes) :
                    Lower(fetched.memes[k].name) = Lower(st.template_name)}
        last == CHOOSE k \in hits : \A j \in hits : j <= k
    IN  IF fetched.fail THEN [st |-> st, err |-> TransportError]
        ELSE IF hits = {}
        THEN [st |-> st, err |-> TemplateNotFound(st.template_name)]
        ELSE [st |-> [st EXCEPT !.box_count = Some(fetched.memes[last].box_count)],
              err |-> NoError]

\* get_template_info without the "if not match" check
get_template_info_unchecked(st, fetched) ==
    LET match == FirstMatch(fetched.memes, st.template_name)
    IN  IF fetched.fail THEN [st |-> st, err |-> TransportError]
        ELSE IF match = <<>> THEN [st |-> st, err |-> NoError]
        ELSE [st |-> [st EXCEPT !.box_count = Some(match[1].box_count)],
              err |-> NoError]

get_template_info(st, fetched) ==
    LET match == FirstMatch(fetched.memes, st.template_name)
    IN  IF fetched.fail THEN [st |-> st, err |-> TransportError]
        ELSE IF match = <<>>
        THEN [st |-> st, err |-> TemplateNotFound(st.template_name)]
        ELSE [st |-> [st EXCEPT !.box_count = Some(match[1].box_count)],
              err |-> NoError]

\* for i in range(2): one invocation per candidate; answers[i + 1] is the
\* outcome of the invocation of iteration i
RECURSIVE ProposeLoop(_, _, _)
ProposeLoop(i, proposals, answers) ==
    IF i = NumProposals
    THEN [raised |-> FALSE, proposals |-> proposals, calls |-> i]
    ELSE IF answers[i + 1].fail
    THEN [raised |-> TRUE, proposals |-> proposals, calls |-> i + 1]
    ELSE ProposeLoop(i + 1, Append(proposals, Proposal(answers[i + 1].text, i)),
                     answers)

\* state["caption_proposals"] = proposals, unless an invocation raised
StoreProposals(st, loop) ==
    IF loop.raised
    THEN [st |-> st, err |-> TransportError, calls |-> loop.calls]
    ELSE [st |-> [st EXCEPT !.caption_proposals = Some(VList(loop.proposals))],
          err |-> NoError, calls |-> loop.calls]

generate_multiple_captions(st, answers) ==
    StoreProposals(st, ProposeLoop(0, <<>>, answers))

\* select_best_caption with llm.invoke moved inside the try block
select_best_caption_guarded(st, answer) ==
    IF PromptRaises(st.caption_proposals[1])
    THEN [st |-> st, err |-> PromptError(st.caption_proposals[1]), calls |-> 0]
    ELSE IF answer.fail
    THEN [st |-> JudgeExcept(st), err |-> NoError, calls |-> 1]
    ELSE [st |-> Judge(st, answer.text), err |-> NoError, calls |-> 1]

select_best_caption(st, answer) ==
    IF PromptRaises(st.caption_proposals[1])
    THEN [st |-> st, err |-> PromptError(st.caption_proposals[1]), calls |-> 0]
    ELSE IF answer.fail
    THEN [st |-> st, err |-> TransportError, calls |-> 1]
    ELSE [st |-> Judge(st, answer.text), err |-> NoError, calls |-> 1]

\* RenderParams sending as many texts as the template has boxes
RenderParamsPerBox(match, captions) ==
    [template_id |-> match.id,
     username |-> "IMGFLIP_USERNAME",
     password |-> "IMGFLIP_PASSWORD",
     texts |-> SubSeq(Iterate(captions), 1,
                      IF match.box_count < PyLen(captions) THEN match.box_count
                      ELSE PyLen(captions))]

\* the request sent to caption_image: text{i} is texts[i + 1]
RenderParams(match, captions) ==
    [template_id |-> match.id,
     username |-> "IMGFLIP_USERNAME",
     password |-> "IMGFLIP_PASSWORD",
     texts |-> Iterate(captions)]

\* call_imgflip_api taking the last matching entry of its snapshot
call_imgflip_api_last_match(st, fetched, posted) ==
    LET hits == {k \in 1..Len(fetched.memes) :
                    Lower(fetched.memes[k].name) = Lower(st.template_name)}
        last == CHOOSE k \in hits : \A j \in hits : j <= k
        params == RenderParams(fetched.memes[last], st.captions[1])
    IN  IF fetched.fail THEN [st |-> st, err |-> TransportError, posts |-> <<>>]
        ELSE IF hits = {}
        THEN [st |-> st, err |-> TemplateNotFound(st.template_name), posts |-> <<>>]
        ELSE IF posted.fail
        THEN [st |-> st, err |-> TransportError, posts |-> <<params>>]
        ELSE IF ~posted.res.success
        THEN [st |-> st, err |-> ImgflipFailed(posted.res), posts |-> <<params>>]
        ELSE [st |-> [st EXCEPT !.meme_url = Some(posted.res.url)],
              err |-> NoError, posts |-> <<params>>]

\* call_imgflip_api sending the request again when the provider reports failure
call_imgflip_api_retrying(st, fetched, posted) ==
    LET match == FirstMatch(fetched.memes, st.template_name)
        params == RenderParams(match[1], st.captions[1])
    IN  IF fetched.fail THEN [st |-> st, err |-> TransportError, posts |-> <<>>]
        ELSE IF match = <<>>
        THEN [st |-> st, err |-> TemplateNotFound(st.template_name), posts |-> <<>>]
        ELSE IF posted.fail
        THEN [st |-> st, err |-> TransportError, posts |-> <<params>>]
        ELSE IF ~posted.res.success
        THEN [st |-> st, err |-> ImgflipFailed(posted.res), posts |-> <<params, params>>]
        ELSE [st |-> [st EXCEPT !.meme_url = Some(posted.res.url)],
              err |-> NoError, posts |-> <<params>>]

call_imgflip_api(st, fetched, posted) ==
    LET match == FirstMatch(fetched.memes, st.template_name)
        params == RenderParams(match[1], st.captions[1])
    IN  IF fetched.fail THEN [st |-> st, err |-> TransportError, posts |-> <<>>]
        ELSE IF match = <<>>
        THEN [st |-> st, err |-> TemplateNotFound(st.template_name), posts |-> <<>>]
        ELSE IF posted.fail
        THEN [st |-> st, err |-> TransportError, posts |-> <<params>>]
        ELSE IF ~posted.res.success
        THEN [st |-> st, err |-> ImgflipFailed(posted.res), posts |-> <<params>>]
        ELSE [st |-> [st EXCEPT !.meme_url = Some(posted.res.url)],
              err |-> NoError, posts |-> <<params>>]

\* builder.set_entry_point / builder.add_edge
EntryPoint == "get_template_info"

\* Edge with the judge sent back to the proposer
EdgeBack(node) ==
    CASE node = "get_template_info" -> "generate_multiple_captions"
      [] node = "generate_multiple_captions" -> "select_best_caption"
      [] node = "select_best_caption" -> "generate_multiple_captions"
      [] node = "call_imgflip_api" -> "END"

Edge(node) ==
    CASE node = "get_template_info" -> "generate_multiple_captions"
      [] node = "generate_multiple_captions" -> "select_best_caption"
      [] node = "select_best_caption" -> "call_imgflip_api"
      [] node = "call_imgflip_api" -> "END"

\* ------------------------------------------------------------------------
\* What the outside can answer
\* ------------------------------------------------------------------------

\* most elements in a list literal the model returns
MaxItems == 3

\* largest "selected" the judge returns
MaxSelected == 3

TemplateNames == {<<"a", "B">>, <<"C">>}

\* the registry entries named like the template "a B" up to letter case
Variants == {Meme(<<"A", "b">>, "101", 2), Meme(<<"a", "b">>, "102", 3)}

\* an entry with another name
Other == Meme(<<"c">>, "103", 1)

\* the case variants in every order, none twice
Arrangements ==
    UNION {{r \in [1..n -> Variants] : \A j, k \in 1..n : r[j] = r[k] => j = k} :
              n \in 0..Cardinality(Variants)}

\* the snapshots: an arrangement of the variants, alone or after the other
\* entry, of no more entries than there are variants
Registries ==
    {r \in {head \o a : head \in {<<>>, <<Other>>}, a \in Arrangements} :
        Len(r) <= Cardinality(Variants)}

FetchOutcomes ==
    {[fail |-> TRUE, memes |-> <<>>]}
        \cup {[fail |-> FALSE, memes |-> r] : r \in Registries}

\* "t1", "t2", ...: the k-th string of a list literal
Elem(k) == S(<<"t", ToString(k)>>)

RECURSIVE Elems(_)
Elems(n) ==
    IF n = 0 THEN <<>>
    ELSE IF n = 1 THEN <<Elem(1)>>
    ELSE Elems(n - 1) \o <<P(","), Elem(n)>>

\* ["t1", ..., "tn"]
ListText(n) == <<P("[")>> \o Elems(n) \o <<P("]")>>

\* A model response is named by <<kind, n>>; Text gives the tokens it stands for.
\* <<"fail", 0>> names an invocation that raises instead of answering.
ProposerAnswers ==
    {<<"list", n>> : n \in 0..MaxItems}
        \cup {<<k, 0>> : k \in {"list_in_prose", "int_list", "prose", "empty",
                                "two_commas", "tuple", "string", "dict", "int_dict"}}

\* {"selected": sel, "reasoning": "because"}
JudgeText(sel) ==
    <<P("{"), S(<<"selected">>), P(":"), sel, P(","),
      S(<<"reasoning">>), P(":"), S(<<"because">>), P("}")>>

JudgeAnswers ==
    {<<"selected", k>> : k \in 0..MaxSelected}
        \cup {<<k, 0>> : k \in {"json_in_prose", "selected_string", "selected_float",
                                "selected_only", "reasoning_only", "no_colon",
                                "json_list", "prose"}}

Text(id) ==
    CASE id[1] = "list" -> ListText(id[2])
      [] id[1] = "list_in_prose" ->
             <<WS, Word, P(":"), WS>> \o ListText(2) \o <<WS, Word, WS>>
      [] id[1] = "int_list" -> <<P("["), N(1), P(","), N(2), P("]")>>
      [] id[1] = "prose" -> <<Word, WS, Word>>
      [] id[1] = "empty" -> <<>>
      [] id[1] = "two_commas" -> <<P("["), Elem(1), P(","), P(","), Elem(2), P("]")>>
      [] id[1] = "tuple" -> <<P("("), Elem(1), P(","), Elem(2), P(")")>>
      [] id[1] = "string" -> <<S(<<"a", "b">>)>>
      [] id[1] = "dict" ->
             <<P("{"), S(<<"a">>), P(":"), S(<<"b">>), P(","),
               S(<<"c">>), P(":"), S(<<"d">>), P("}")>>
      [] id[1] = "int_dict" ->
             <<P("{"), N(1), P(":"), S(<<"b">>), P(","),
               N(0), P(":"), S(<<"a">>), P("}")>>
      [] id[1] = "selected" -> JudgeText(N(id[2]))
      [] id[1] = "json_in_prose" -> <<Word, WS>> \o JudgeText(N(2)) \o <<WS, Word>>
      [] id[1] = "selected_string" -> JudgeText(S(<<"2">>))
      [] id[1] = "selected_float" -> JudgeText(Lit(VFloat(20)))
      [] id[1] = "selected_only" -> <<P("{"), S(<<"selected">>), P(":"), N(7), P("}")>>
      [] id[1] = "reasoning_only" ->
             <<P("{"), S(<<"reasoning">>), P(":"), S(<<"because">>), P("}")>>
      [] id[1] = "no_colon" -> <<P("{"), S(<<"selected">>), N(2), P("}")>>
      [] id[1] = "json_list" -> <<P("["), N(1), P(","), N(2), P("]")>>
      [] OTHER -> <<>>

Failed == <<"fail", 0>>

\* the outcome of llm.invoke named by id
Invocation(id) == [fail |-> id = Failed, text |-> Text(id)]

NoResponse == [success |-> FALSE, url |-> <<>>, has_error_message |-> FALSE,
               error_message |-> <<>>]

PostOutcomes ==
    {[fail |-> TRUE, res |-> NoResponse],
     [fail |-> FALSE, res |-> [NoResponse EXCEPT !.success = TRUE,
                                               !.url = <<"https://i.imgflip.com/1.jpg">>]],
     [fail |-> FALSE, res |-> [NoResponse EXCEPT !.has_error_message = TRUE,
                                               !.error_message = <<"invalid credentials">>]],
     [fail |-> FALSE, res |-> NoResponse]}

\* ------------------------------------------------------------------------
\* The run of meme_chain.invoke({"query": ..., "template_name": ...})
\* ------------------------------------------------------------------------

VARIABLES
    pc,        \* the node to run next, "END" after the last, "raised" after a raise
    state,     \* the MemeState passed from node to node
    error,     \* the exception the run ended with
    stages,    \* the nodes entered so far, in order
    fetches,   \* the answers to GET get_memes so far
    llm_log,   \* the outcomes of llm.invoke so far, by name
    posts,     \* the requests sent to caption_image so far
    post_results  \* the answers to those requests

vars == <<pc, state, error, stages, fetches, llm_log, posts, post_results>>

Nodes ==
    {"get_template_info", "generate_multiple_captions", "select_best_caption",
     "call_imgflip_api"}

Init ==
    /\ pc = EntryPoint
    /\ \E name \in TemplateNames :
           state = [query |-> <<"cats">>, template_name |-> name,
                    box_count |-> Unset, captions |-> Unset, meme_url |-> Unset,
                    caption_proposals |-> Unset, selected_caption_index |-> Unset,
                    selection_reasoning |-> Unset]
    /\ error = NoError
    /\ stages = <<>>
    /\ fetches = <<>>
    /\ llm_log = <<>>
    /\ posts = <<>>
    /\ post_results = <<>>

\* the engine after a node: follow the edge, or end the run with the exception.
\* fetched, ids and posted are the answers the node may have consumed.
Finish(node, out, fetched, ids, posted) ==
    /\ stages' = Append(stages, node)
    /\ state' = out.st
    /\ error' = out.err
    /\ pc' = IF out.err = NoError THEN Edge(node) ELSE "raised"
    /\ fetches' = fetches \o fetched
    /\ llm_log' = llm_log \o SubSeq(ids, 1, out.calls)
    /\ posts' = posts \o out.posts
    /\ post_results' = post_results \o [k \in 1..Len(out.posts) |-> posted[1]]

NoCalls == [calls |-> 0, posts |-> <<>>]

Resolving ==
    /\ pc = "get_template_info"
    /\ \E fetched \in FetchOutcomes :
           Finish(pc, get_template_info(state, fetched) @@ NoCalls,
                  <<fetched>>, <<>>, <<>>)

Proposing ==
    /\ pc = "generate_multiple_captions"
    /\ \E ids \in [1..NumProposals -> ProposerAnswers \cup {Failed}] :
           Finish(pc,
                  generate_multiple_captions(
                      state, [k \in 1..NumProposals |-> Invocation(ids[k])])
                      @@ NoCalls,
                  <<>>, ids, <<>>)

Judging ==
    /\ pc = "select_best_caption"
    /\ \E id \in JudgeAnswers \cup {Failed} :
           Finish(pc, select_best_caption(state, Invocation(id)) @@ NoCalls,
                  <<>>, <<id>>, <<>>)

Rendering ==
    /\ pc = "call_imgflip_api"
    /\ \E fetched \in FetchOutcomes, posted \in PostOutcomes :
           Finish(pc, call_imgflip_api(state, fetched, posted) @@ NoCalls,
                  <<fetched>>, <<>>, <<posted>>)

Next == Resolving \/ Proposing \/ Judging \/ Rendering

Spec == Init /\ [][Next]_vars

\* ------------------------------------------------------------------------
\* Properties
\* ------------------------------------------------------------------------

Pipeline ==
    <<"get_template_info", "generate_multiple_captions", "select_best_caption",
      "call_imgflip_api">>

Entered(node) == \E k \in 1..Len(stages) : stages[k] = node

\* the run ended with an exception raised by node
RaisedIn(node) == pc = "raised" /\ stages # <<>> /\ stages[Len(stages)] = node

\* node ran and returned
Returned(node) == Entered(node) /\ ~RaisedIn(node)

\* the answer of the invocation for candidate i (0 or 1), and of the judge
Answered(k) == Len(llm_log) >= k /\ llm_log[k] # Failed

\* the parse of the answer for candidate i raises
ParseFails(k) == Answered(k) /\ ~ParseCaptions(Text(llm_log[k])).ok

JudgeAnswer == NumProposals + 1

\* C1: the stages entered so far are always an initial part of the fixed order
\* Resolving, Proposing, Judging, Rendering (so each is entered at most once
\* and none after a later one), and a run that is Done has entered all four.
C1_FixedOrder ==
    /\ Len(stages) <= Len(Pipeline)
    /\ stages = SubSeq(Pipeline, 1, Len(stages))
    /\ pc \in Nodes => pc = Pipeline[Len(stages) + 1]
    /\ pc = "END" => stages = Pipeline

C1_Witness == pc = "END" /\ stages = Pipeline

\* C2: whatever text the model answers with, a run never ends with an
\* exception raised in Proposing or Judging (a failure of the client call
\* itself set aside): it can fail only in Resolving or Rendering.
C2_FailedOnlyInResolvingOrRendering ==
    (pc = "raised" /\ error # TransportError)
        => (RaisedIn("get_template_info") \/ RaisedIn("call_imgflip_api"))

\* C3: once select_best_caption has returned, selected_caption_index is 0 or
\* 1 and captions is caption_proposals[selected_caption_index], for every
\* judge answer.
C3_SelectionConsistent ==
    Returned("select_best_caption") =>
        /\ state.selected_caption_index \in {Some(VInt(0)), Some(VInt(1))}
        /\ GetItem(state.caption_proposals[1], state.selected_caption_index[1]).ok
        /\ state.captions =
               Some(GetItem(state.caption_proposals[1],
                            state.selected_caption_index[1]).v)

\* the try block raised after writing the index and the reasoning
C3_Witness ==
    /\ Returned("select_best_caption")
    /\ Answered(JudgeAnswer)
    /\ LET t == JudgeTry([state EXCEPT !.selected_caption_index = Unset,
                                       !.selection_reasoning = Unset,
                                       !.captions = Unset,
                                       !.meme_url = Unset],
                         Text(llm_log[JudgeAnswer]))
       IN  t.raised /\ IsSet(t.st.selected_caption_index)

\* C4: when the answer for a candidate cannot be parsed, the proposer still
\* returns 2 entries, the entry of that candidate is its placeholder pair, and
\* the run goes on to Rendering (it does not end with an exception of Proposing
\* or Judging, a failure of the client call itself set aside).
C4_MalformedAnswerRecovered ==
    \A i \in 0..(NumProposals - 1) :
        ParseFails(i + 1) /\ Entered("generate_multiple_captions")
            /\ Len(llm_log) >= NumProposals /\ llm_log[NumProposals] # Failed
        => /\ IsSet(state.caption_proposals)
           /\ PyLen(state.caption_proposals[1]) = NumProposals
           /\ GetItem(state.caption_proposals[1], VInt(i)).v = Placeholder(i)
           /\ Placeholder(0) # Placeholder(1)
           /\ ~(pc = "raised" /\ error # TransportError
                  /\ ~RaisedIn("call_imgflip_api"))

\* the template name matches no entry of the snapshot fetched in Resolving
NotInFirstFetch ==
    /\ fetches # <<>>
    /\ ~fetches[1].fail
    /\ FirstMatch(fetches[1].memes, state.template_name) = <<>>

\* C5: when the template name matches no entry at the Resolving fetch, the
\* run has ended right there with the template-not-found error: no model
\* invocation, no render request, and none of box_count, caption_proposals,
\* captions, meme_url set.
C5_NotFoundAborts ==
    NotInFirstFetch =>
        /\ RaisedIn("get_template_info")
        /\ stages = <<"get_template_info">>
        /\ error = TemplateNotFound(state.template_name)
        /\ llm_log = <<>>
        /\ posts = <<>>
        /\ Len(fetches) = 1
        /\ state.box_count = Unset
        /\ state.caption_proposals = Unset
        /\ state.captions = Unset
        /\ state.meme_url = Unset

C5_Witness == NotInFirstFetch /\ pc = "raised"

\* the provider answered the render request with success = false
ProviderRefused ==
    /\ post_results # <<>>
    /\ ~post_results[1].fail
    /\ ~post_results[1].res.success

\* C6, as claimed: on success = false the message of the error is exactly the
\* provider's error_message.
C6_MessageIsProviderMessage ==
    (ProviderRefused /\ post_results[1].res.has_error_message)
        => error.msg = post_results[1].res.error_message

\* C6, amended: on success = false the run ends in Rendering with a
\* RuntimeError whose message is "Imgflip API failed: " followed by the
\* provider's error_message unchanged ("Unknown error" when the answer has
\* none); meme_url is not set and exactly one render request was sent.
C6_MessageIsPrefixedProviderMessage ==
    ProviderRefused =>
        /\ RaisedIn("call_imgflip_api")
        /\ error.kind = "RuntimeError"
        /\ error.msg =
               <<"Imgflip API failed: ">>
                   \o (IF post_results[1].res.has_error_message
                       THEN post_results[1].res.error_message
                       ELSE <<"Unknown error">>)
        /\ state.meme_url = Unset
        /\ Len(posts) = 1

C6_Witness == ProviderRefused /\ post_results[1].res.has_error_message

\* the judge's answer decodes to an object whose "selected" is an integer
\* other than 1 and 2
SelectedOutOfRange ==
    /\ Answered(JudgeAnswer)
    /\ LET result == JudgeResult(Text(llm_log[JudgeAnswer]))
           sel == GetItem(result.v, Key("selected"))
       IN  /\ result.ok
           /\ result.v.t = "dict"
           /\ sel.ok
           /\ sel.v.t = "int"
           /\ sel.v.n \notin {1, 2}

\* C7: with "selected" an integer outside {1, 2}, the index is 0 and the
\* reasoning is the fallback rationale of the except block.
C7_OutOfRangeUsesFallbackReasoning ==
    SelectedOutOfRange =>
        /\ state.selected_caption_index = Some(VInt(0))
        /\ state.selection_reasoning = Some(FallbackReasoning)

\* the judge's answer has no brace-delimited fragment and does not decode whole
NoJsonAtAll ==
    /\ Answered(JudgeAnswer)
    /\ LET content == Strip(Text(llm_log[JudgeAnswer]))
       IN  /\ ~Search(content, "{", "}").found
           /\ ~Decode(content, "json").ok

\* C8: with no brace-delimited fragment and no decodable whole, the index is
\* 0, the reasoning is the fallback rationale, captions is caption_proposals[0],
\* and the run has gone on to Rendering.
C8_NoJsonDefaultsToFirst ==
    NoJsonAtAll =>
        /\ state.selected_caption_index = Some(VInt(0))
        /\ state.selection_reasoning = Some(FallbackReasoning)
        /\ state.captions = Some(GetItem(state.caption_proposals[1], VInt(0)).v)
        /\ pc = "call_imgflip_api" \/ Entered("call_imgflip_api")

C8_Witness == NoJsonAtAll /\ pc = "END" /\ IsSet(state.meme_url)

\* C9: when llm.invoke itself fails in Proposing or Judging, the run ends
\* there with that error, Rendering is never entered, and nothing is put in
\* the place of the missing answer: no candidates after a failure in
\* Proposing, no selection after a failure in Judging.
C9_ClientFailureIsFatal ==
    \A k \in 1..Len(llm_log) :
        llm_log[k] = Failed =>
            /\ k = Len(llm_log)
            /\ pc = "raised"
            /\ error = TransportError
            /\ ~Entered("call_imgflip_api")
            /\ posts = <<>>
            /\ state.selected_caption_index = Unset
            /\ state.selection_reasoning = Unset
            /\ state.captions = Unset
            /\ (k <= NumProposals =>
                    /\ RaisedIn("generate_multiple_captions")
                    /\ state.caption_proposals = Unset)
            /\ (k > NumProposals => RaisedIn("select_best_caption"))

C9_Witness ==
    /\ Len(llm_log) = JudgeAnswer
    /\ llm_log[JudgeAnswer] = Failed
    /\ ParseFails(1)

\* C10: no external call is repeated.  A run that is Done has made 2 registry
\* fetches, 3 model invocations and 1 render request; no run makes more; the
\* proposer makes one invocation per candidate and the judge one, whether or
\* not their answers parse.
C10_NoRetry ==
    /\ Len(fetches) <= 2
    /\ Len(llm_log) <= NumProposals + 1
    /\ Len(posts) <= 1
    /\ pc = "END" =>
           Len(fetches) = 2 /\ Len(llm_log) = NumProposals + 1 /\ Len(posts) = 1
    /\ Returned("generate_multiple_captions") /\ ~Entered("select_best_caption")
           => Len(llm_log) = NumProposals
    /\ Returned("select_best_caption") => Len(llm_log) = NumProposals + 1

C10_Witness ==
    /\ pc = "END"
    /\ ParseFails(1)
    /\ ParseFails(2)
    /\ ~JudgeResult(Text(llm_log[JudgeAnswer])).ok

\* the Resolving fetch answered with a snapshot
FirstFetched == fetches # <<>> /\ ~fetches[1].fail

\* C11: after the Resolving fetch, box_count is the box_count of every entry
\* of the snapshot whose name is the template name up to letter case (also
\* when the snapshot holds several such entries), and a name that matches no
\* entry has raised the template-not-found error.
C11_ResolvesOwnBoxCount ==
    FirstFetched =>
        /\ \A k \in 1..Len(fetches[1].memes) :
               Lower(fetches[1].memes[k].name) = Lower(state.template_name)
                   => state.box_count = Some(fetches[1].memes[k].box_count)
        /\ FirstMatch(fetches[1].memes, state.template_name) = <<>>
               => /\ RaisedIn("get_template_info")
                  /\ error = TemplateNotFound(state.template_name)

\* a list or tuple of exactly 2 strings
IsStringPair(v) ==
    /\ v.t \in {"list", "tuple"}
    /\ Len(v.items) = 2
    /\ \A k \in 1..2 : v.items[k].t = "str"

\* C12: once generate_multiple_captions has returned, caption_proposals holds
\* exactly 2 entries and each entry is a sequence of exactly 2 strings,
\* whatever the model answered.
C12_ProposalsAreStringPairs ==
    Returned("generate_multiple_captions") =>
        /\ IsSet(state.caption_proposals)
        /\ state.caption_proposals[1].t = "list"
        /\ Len(state.caption_proposals[1].items) = NumProposals
        /\ \A k \in 1..Len(state.caption_proposals[1].items) :
               IsStringPair(state.caption_proposals[1].items[k])

\* C13: the render request carries exactly two text slots, text0 = captions[0]
\* and text1 = captions[1], where captions is
\* caption_proposals[selected_caption_index].
C13_TextsAreCaptionsInOrder ==
    posts # <<>> =>
        /\ state.captions =
               Some(GetItem(state.caption_proposals[1],
                            state.selected_caption_index[1]).v)
        /\ Len(posts[1].texts) = 2
        /\ GetItem(state.captions[1], VInt(0)) = Ok(posts[1].texts[1])
        /\ GetItem(state.captions[1], VInt(1)) = Ok(posts[1].texts[2])

\* the judge's answer decodes to an object whose "selected" is the integer k
JudgeSelected(k) ==
    /\ Answered(JudgeAnswer)
    /\ LET result == JudgeResult(Text(llm_log[JudgeAnswer]))
       IN  /\ result.ok
           /\ result.v.t = "dict"
           /\ GetItem(result.v, Key("selected")) = Ok(VInt(k))

\* the run of scenario A: both candidates answered with a list of two strings,
\* the judge with "selected": 2, and the provider rendered the image
ScenarioA ==
    /\ Len(llm_log) = JudgeAnswer
    /\ \A i \in 1..NumProposals : llm_log[i] = <<"list", 2>>
    /\ JudgeSelected(2)
    /\ post_results # <<>>
    /\ ~post_results[1].fail
    /\ post_results[1].res.success

\* the index and the captions are those of option k
Honoured(k) ==
    /\ state.selected_caption_index = Some(VInt(k - 1))
    /\ GetItem(state.caption_proposals[1], VInt(k - 1)).ok
    /\ state.captions = Some(GetItem(state.caption_proposals[1], VInt(k - 1)).v)

\* selected, the "selected" of the decoded answer, is honoured when it is the
\* integer 1 or 2
HonouredIfValid(selected) ==
    \A k \in {1, 2} : selected = Ok(VInt(k)) => Honoured(k)

\* result["selected"], for a decoded result
SelectedOf(result) ==
    IF result.ok /\ result.v.t = "dict"
    THEN GetItem(result.v, Key("selected"))
    ELSE Raised

\* C14: when the judge's answer decodes to an object with selected = k, k in
\* {1, 2}, select_best_caption returns with the index k - 1 and captions =
\* caption_proposals[k - 1]; the run of scenario A is at END with index 1,
\* captions = caption_proposals[1] and meme_url set.
C14_SelectedIsHonoured ==
    /\ (pc = "call_imgflip_api" /\ Answered(JudgeAnswer)) =>
           HonouredIfValid(SelectedOf(JudgeResult(Text(llm_log[JudgeAnswer]))))
    /\ ScenarioA =>
           /\ pc = "END"
           /\ Honoured(2)
           /\ state.captions = Some(VList(<<VStr(<<"t", "1">>), VStr(<<"t", "2">>)>>))
           /\ IsSet(state.meme_url)

C14_Witness == ScenarioA /\ state.box_count = Some(2) /\ pc = "END"

\* both fetches answered, with the same snapshot
RegistryUnchanged ==
    /\ Len(fetches) = 2
    /\ ~fetches[1].fail
    /\ fetches[2] = fetches[1]

\* C15: with the same snapshot at both fetches, the Rendering lookup finds an
\* entry, the request is sent with the id of an entry of the snapshot, and
\* box_count is the box_count of the entry with that id.
C15_SameEntryTwice ==
    RegistryUnchanged =>
        /\ error # TemplateNotFound(state.template_name)
        /\ Len(posts) = 1
        /\ \E k \in 1..Len(fetches[1].memes) :
               fetches[1].memes[k].id = posts[1].template_id
        /\ \A k \in 1..Len(fetches[1].memes) :
               fetches[1].memes[k].id = posts[1].template_id
                   => state.box_count = Some(fetches[1].memes[k].box_count)

\* the unchanged snapshot holds two entries matching the name
C15_Witness ==
    /\ RegistryUnchanged
    /\ Cardinality({k \in 1..Len(fetches[1].memes) :
                       Lower(fetches[1].memes[k].name) = Lower(state.template_name)}) = 2
    /\ pc = "END"

\* the literal of the answer for candidate i, decoded as the proposer does
DecodedAnswer(i) == Decode(Fragment(Strip(Text(llm_log[i + 1])), "[", "]"), "py")

\* decoded is a list of n elements
IsListOf(decoded, n) ==
    decoded.ok /\ decoded.v.t = "list" /\ Len(decoded.v.items) = n

\* stored is the list decoded brought to 2 elements, for candidate i
Normalised(stored, decoded, i) ==
    /\ stored.t = "list"
    /\ Len(stored.items) = 2
    /\ \A j \in 1..2 :
           stored.items[j] =
               IF j <= Len(decoded.items) THEN decoded.items[j] ELSE VStr(<<>>)
    /\ Len(decoded.items) = 2 => stored = decoded
    /\ stored # Placeholder(i)

NormalisedIfList(stored, decoded, i) ==
    (decoded.ok /\ decoded.v.t = "list") => Normalised(stored, decoded.v, i)

\* C16: a decoded list is stored as a list of 2 elements: its own elements in
\* place, in order, as far as they go, then empty strings; elements after the
\* second are dropped; a list of 2 is stored unchanged.  The stored entry is
\* not the placeholder pair.  (Stated of what the proposer hands to the judge
\* and the judge to the renderer; no node writes caption_proposals afterwards.)
C16_LengthNormalised ==
    \A i \in 0..(NumProposals - 1) :
        (Returned("generate_multiple_captions") /\ ~Entered("call_imgflip_api")
             /\ Answered(i + 1)) =>
            NormalisedIfList(state.caption_proposals[1].items[i + 1],
                             DecodedAnswer(i), i)

C16_Witness ==
    /\ Returned("generate_multiple_captions")
    /\ IsListOf(DecodedAnswer(0), 1)
    /\ IsListOf(DecodedAnswer(1), MaxItems)

\* C17: the fields are populated in dependency order: captions only with
\* caption_proposals set to 2 entries, caption_proposals only with box_count
\* set, meme_url only with captions and selected_caption_index set.
C17_DependencyOrder ==
    /\ IsSet(state.captions) =>
           /\ IsSet(state.caption_proposals)
           /\ state.caption_proposals[1].t = "list"
           /\ Len(state.caption_proposals[1].items) = NumProposals
    /\ IsSet(state.caption_proposals) => IsSet(state.box_count)
    /\ IsSet(state.meme_url) =>
           IsSet(state.captions) /\ IsSet(state.selected_caption_index)
    /\ IsSet(state.selected_caption_index) => IsSet(state.captions)

C17_Witness ==
    /\ IsSet(state.meme_url)
    /\ IsSet(state.captions)
    /\ IsSet(state.caption_proposals)
    /\ IsSet(state.box_count)

\* the Rendering fetch answered with a snapshot in which the name matches
SecondFetchMatches ==
    /\ Len(fetches) = 2
    /\ ~fetches[2].fail
    /\ FirstMatch(fetches[2].memes, state.template_name) # <<>>

\* C18: whatever box_count Resolving recorded, it stays as recorded; every
\* candidate Proposing stores has 2 slots; and Rendering ends without a
\* request only when its fetch fails or its lookup finds nothing, otherwise it
\* sends one request whose 2 texts are what a loop over captions visits.
C18_BoxCountDoesNotGate ==
    IsSet(state.box_count) =>
        /\ state.box_count =
               Some(FirstMatch(fetches[1].memes, state.template_name)[1].box_count)
        /\ Returned("generate_multiple_captions") =>
               \A k \in 1..NumProposals :
                   /\ HasLen(state.caption_proposals[1].items[k])
                   /\ PyLen(state.caption_proposals[1].items[k]) = 2
        /\ (Entered("call_imgflip_api") /\ posts = <<>>) =>
               error \in {TransportError, TemplateNotFound(state.template_name)}
        /\ posts # <<>> =>
               /\ Len(posts) = 1
               /\ Len(posts[1].texts) = 2
               /\ posts[1].texts = Iterate(state.captions[1])

\* a template with more boxes than captions, rendered
C18_Witness ==
    /\ SecondFetchMatches
    /\ state.box_count = Some(3)
    /\ pc = "END"

\* the Rendering fetch answered with a snapshot
SecondFetched == Len(fetches) = 2 /\ ~fetches[2].fail

\* first and second are the matches of the Resolving and Rendering lookups
SecondLookupDecides(first, second) ==
    /\ state.box_count = Some(first[1].box_count)
    /\ second = <<>> =>
           /\ RaisedIn("call_imgflip_api")
           /\ error = TemplateNotFound(state.template_name)
           /\ Len(llm_log) = NumProposals + 1
           /\ \A k \in 1..Len(llm_log) : llm_log[k] # Failed
           /\ posts = <<>>
           /\ state.meme_url = Unset
    /\ second # <<>> =>
           /\ Len(posts) = 1
           /\ posts[1].template_id = second[1].id

\* C19: when the name matches no entry of the snapshot of the Rendering fetch,
\* the run has failed in Rendering with the template-not-found error, after
\* all 3 model invocations, with no render request and meme_url unset; when it
\* matches, the id sent is that of the first matching entry of that snapshot,
\* and box_count is still that of the first matching entry of the Resolving
\* snapshot.
C19_SecondFetchIsAuthoritative ==
    SecondFetched =>
        SecondLookupDecides(FirstMatch(fetches[1].memes, state.template_name),
                            FirstMatch(fetches[2].memes, state.template_name))

\* the two fetches match different entries, with different box_counts
C19_Witness ==
    /\ SecondFetched
    /\ FirstMatch(fetches[2].memes, state.template_name) # <<>>
    /\ FirstMatch(fetches[2].memes, state.template_name)[1].id
           # FirstMatch(fetches[1].memes, state.template_name)[1].id
    /\ state.box_count
           # Some(FirstMatch(fetches[2].memes, state.template_name)[1].box_count)
    /\ Len(fetches[2].memes) = 2
    /\ pc = "END"

\* C20: every entry generate_multiple_captions stores can be read at
\* positions 0 and 1, so building the judge's prompt never raises.
C20_PromptNeverRaises ==
    Returned("generate_multiple_captions") =>
        /\ ~PromptRaises(state.caption_proposals[1])
        /\ ~(RaisedIn("select_best_caption")
               /\ error = PromptError(state.caption_proposals[1]))

====
